---- MODULE Spec2Model ----
(***************************************************************************)
(* NadaHarvester (ckanext/ddi/harvesters/ddiharvester.py): the three-stage *)
(* harvest pipeline gather_stage / fetch_stage / import_stage, the         *)
(* endpoint builders and _convert_to_extras, as a state machine.           *)
(*                                                                         *)
(* Three specifications share the variables:                               *)
(*   SpecGather  one gather_stage call, one loop iteration per step,       *)
(*               against a server that answers each page request;          *)
(*   Spec        a run of several harvest objects, every fetch_stage and   *)
(*               import_stage call one atomic step;                        *)
(*   SpecConc    two stage invocations on one harvester instance,          *)
(*               interleaved statement by statement.                       *)
(*                                                                         *)
(* Text is modelled as a sequence of one-character strings, so that        *)
(* slicing ([:100]) and munge_tag act on characters.                       *)
(***************************************************************************)
EXTENDS Integers, Sequences, FiniteSets, TLC

VARIABLES
    self_config,      \* NadaHarvester.config, the attribute _set_config assigns
    \* ---- gather_stage
    job,              \* harvest_job.source: [url, config]
    server,           \* the remote catalogue: [found, limit, mode]
    page,             \* local page
    harvest_obj_ids,  \* local harvest_obj_ids
    continue_gather,  \* local continue_gather
    api_url,          \* local api_url (the last URL built)
    requested,        \* every URL requests.get was called with, in order
    saved,            \* HarvestObjects stored by harvest_obj.save(), in order
    gather_errors,    \* messages stored by _save_gather_error
    gret,             \* what gather_stage returned
    gpc,              \* where gather_stage is: "loop", "done", "failed"
    lastResp,         \* the last page body the loop read to its end
    prevResp,         \* the one before it
    \* ---- fetch_stage / import_stage
    objects,          \* harvest objects of the run
    packages,         \* what _create_or_update_package received, per object
    calls,            \* the stage calls made so far: [op, obj, result]
    \* ---- interleaved invocations
    threads           \* per invocation: [op, obj, pc, locals...]

gatherVars == <<job, server, page, harvest_obj_ids, continue_gather, api_url,
                requested, saved, gather_errors, gret, gpc, lastResp, prevResp>>
itemVars == <<objects, packages, calls>>
vars == <<self_config, gatherVars, itemVars, threads>>

----------------------------------------------------------------------------
(* Bounds of the model *)

\* the largest `found` the server reports
MaxFound == 25
\* the largest `limit` (page size) the server reports
MaxLimit == 10
\* pages of a server that does not advance which the model follows
MaxStallPages == 3
\* harvest objects of a run
NObjects == 2
\* errors stored in a run after which failing calls are not followed
MaxErrors == 1

----------------------------------------------------------------------------
(* JSON / Python values *)

JStr(s) == [t |-> "str", s |-> s]
JNull == [t |-> "null", s |-> ""]

Range(f) == {f[i] : i \in DOMAIN f}

Min(a, b) == IF a < b THEN a ELSE b

\* str.rstrip('/') on a URL held as [host, slashes]: the trailing slashes go
rstrip(url) == [host |-> url.host, slashes |-> 0]

----------------------------------------------------------------------------
(* Configuration *)

HARVEST_USER == JStr("harvest")

NoConfig == [k \in {} |-> JNull]

\* _set_config: json.loads(config_str) or {}, then the default user
ConfigWithUser(config) ==
    IF "user" \in DOMAIN config THEN config
    ELSE [k \in DOMAIN config \cup {"user"} |->
            IF k = "user" THEN HARVEST_USER ELSE config[k]]

_set_config(config) == ConfigWithUser(config)

----------------------------------------------------------------------------
(* Endpoint builder *)

\* ACCESS_TYPES, the %s rendering of each code
ACCESS_TYPES ==
    [k \in {"", "direct_access", "public_use", "licensed", "data_enclave",
            "data_external", "no_data_available", "open_data"} |->
        CASE k = "" -> ""
          [] k = "direct_access" -> "1"
          [] k = "public_use" -> "2"
          [] k = "licensed" -> "3"
          [] k = "data_enclave" -> "4"
          [] k = "data_external" -> "5"
          [] k = "no_data_available" -> "6"
          [] k = "open_data" -> "7"]

SearchPath(hasdtype, dtype, p) ==
    [kind |-> "search", hasdtype |-> hasdtype, dtype |-> dtype, page |-> p, id |-> 0]

NoPath == [kind |-> "none", hasdtype |-> FALSE, dtype |-> "", page |-> 0, id |-> 0]

\* _get_search_api: [raised, path]; raised is "" or the exception's class
_get_search_api(access_type, p) ==
    IF access_type.t # "null"
    THEN IF access_type.s \in DOMAIN ACCESS_TYPES
         THEN [raised |-> "", path |-> SearchPath(TRUE, ACCESS_TYPES[access_type.s], p)]
         ELSE [raised |-> "AccessTypeNotAvailableError", path |-> NoPath]
    ELSE [raised |-> "", path |-> SearchPath(FALSE, "", p)]

_get_ddi_api(ddi_id) ==
    [kind |-> "ddi", hasdtype |-> FALSE, dtype |-> "", page |-> 0, id |-> ddi_id]

_get_catalog_path(ddi_id) ==
    [kind |-> "catalog", hasdtype |-> FALSE, dtype |-> "", page |-> 0, id |-> ddi_id]

\* base_url + path
Url(base, path) == [base |-> base, path |-> path]

NoUrl == [base |-> [host |-> "", slashes |-> 0], path |-> NoPath]

\* the lookup self.config['access_type'] and the call of lines 127-130:
\* [raised, path], raised "KeyError" when the key is not set
ConfiguredSearchApi(config, p) ==
    IF "access_type" \notin DOMAIN config
    THEN [raised |-> "KeyError", path |-> NoPath]
    ELSE _get_search_api(config["access_type"], p)

\* gather_stage without the except clause of lines 131-135: a configuration
\* the lookup rejects ends the call
SearchApiNoFallback(config, p) == ConfiguredSearchApi(config, p)

\* gather_stage lines 126-135: the search path, public_use when the configured
\* access type raises AccessTypeNotAvailableError or KeyError.  [raised, path]
SearchApi(config, p) ==
    LET r == ConfiguredSearchApi(config, p)
    IN  IF r.raised \in {"AccessTypeNotAvailableError", "KeyError"}
        THEN _get_search_api(JStr("public_use"), p)
        ELSE r

----------------------------------------------------------------------------
(* The remote catalogue's search API *)

\* rows offset+1 .. offset+n, each with its id
Rows(offset, n) == [i \in 1..n |-> [hasid |-> TRUE, id |-> offset + i]]

Body(rows, offset, limit, found) ==
    [kind |-> "json", missing |-> "", rows |-> rows,
     offset |-> offset, limit |-> limit, found |-> found]

NoResp == Body(<<>>, 0, 0, 0)

\* What the server answers to a request for page p.
\*   "ok"           offset = (p-1)*limit, the rows of that window
\*   "same_offset"  ignores p: the first window, offset 0, on every page
\*   "zero_limit"   reports limit 0 and no rows
Answer(srv, p) ==
    CASE srv.mode = "ok" ->
            LET off == (p - 1) * srv.limit
                n == IF srv.found > off THEN Min(srv.limit, srv.found - off) ELSE 0
            IN  Body(Rows(off, n), off, srv.limit, srv.found)
      [] srv.mode = "same_offset" ->
            Body(Rows(0, Min(srv.limit, srv.found)), 0, srv.limit, srv.found)
      [] srv.mode = "zero_limit" ->
            Body(<<>>, 0, 0, srv.found)

\* The ways an answer can be unusable: no answer, a body that is not JSON, a body
\* without one of the fields, a last row without id
Broken(resp) ==
    {[resp EXCEPT !.kind = k] : k \in {"network", "badjson"}}
    \cup {[resp EXCEPT !.missing = f] : f \in {"rows", "offset", "limit", "found"}}
    \cup (IF resp.rows = <<>> THEN {}
          ELSE {[resp EXCEPT !.rows[Len(resp.rows)].hasid = FALSE]})

----------------------------------------------------------------------------
(* gather_stage *)

NoneRet == [kind |-> "None", ids |-> <<>>]
ListRet(ids) == [kind |-> "list", ids |-> ids]
Pending == [kind |-> "pending", ids |-> <<>>]

\* rows 1..n-1 have an id, row n (if any) has none: n is where row['id'] raises
FirstBadRow(rows) ==
    IF \E i \in 1..Len(rows) : ~rows[i].hasid
    THEN CHOOSE i \in 1..Len(rows) :
            ~rows[i].hasid /\ \A j \in 1..(i - 1) : rows[j].hasid
    ELSE Len(rows) + 1

\* lines 147-153: one saved HarvestObject per row, id given by the store
SaveRows(store, rows, n) ==
    store \o [i \in 1..n |-> [id |-> Len(store) + i, guid |-> rows[i].id]]

\* the loop condition with <= for <
ContinueGatherInclusive(resp) == resp.offset + resp.limit <= resp.found

\* lines 155-156
ContinueGather(resp) == resp.offset + resp.limit < resp.found

\* line 160 / lines 161-166: what the call returns
GatherReturn(ids, failed) == IF failed THEN NoneRet ELSE ListRet(ids)

\* lines 161-166; cause is the exception: "network", "badjson", or the key
\* a KeyError names
GatherError(url, cause) == [url |-> url, cause |-> cause]

\* One iteration of the while loop (lines 122-156) on answer resp, with the
\* return (line 160) or the except clause (lines 161-166) when it ends the call.
GatherIteration(resp) ==
    LET cfg == _set_config(job.config)
        base == rstrip(job.url)
        api == SearchApi(cfg, page)
        url == IF api.raised = "" THEN Url(base, api.path) ELSE api_url
        n == IF resp.kind = "json" /\ resp.missing # "rows"
             THEN FirstBadRow(resp.rows) ELSE 1
        rowsRead == api.raised = "" /\ resp.kind = "json" /\ resp.missing # "rows"
        newSaved == IF rowsRead THEN SaveRows(saved, resp.rows, n - 1) ELSE saved
        newIds == harvest_obj_ids \o
                    [i \in 1..(Len(newSaved) - Len(saved)) |-> newSaved[Len(saved) + i].id]
        cause == CASE api.raised # "" -> api.raised
                   [] resp.kind # "json" -> resp.kind
                   [] resp.missing = "rows" -> "rows"
                   [] n <= Len(resp.rows) -> "id"
                   [] resp.missing # "" -> resp.missing
                   [] OTHER -> ""
        rowsDone == rowsRead /\ n > Len(resp.rows)
    IN  /\ self_config' = cfg
        /\ api_url' = url
        /\ requested' = IF api.raised = "" THEN Append(requested, url) ELSE requested
        /\ saved' = newSaved
        /\ harvest_obj_ids' = newIds
        /\ page' = IF rowsDone THEN page + 1 ELSE page
        /\ IF cause # ""
           THEN /\ gather_errors' = Append(gather_errors, GatherError(url, cause))
                /\ gpc' = "failed"
                /\ gret' = GatherReturn(newIds, TRUE)
                /\ UNCHANGED <<continue_gather, lastResp, prevResp>>
           ELSE /\ continue_gather' = ContinueGather(resp)
                /\ lastResp' = resp
                /\ prevResp' = lastResp
                /\ gpc' = IF ContinueGather(resp) THEN "loop" ELSE "done"
                /\ gret' = IF ContinueGather(resp) THEN gret
                           ELSE GatherReturn(newIds, FALSE)
                /\ UNCHANGED gather_errors

\* the server answers the page request as its mode says
GatherPage ==
    /\ gpc = "loop" /\ continue_gather
    /\ server.mode = "ok" \/ page <= MaxStallPages
    /\ GatherIteration(Answer(server, page))
    /\ UNCHANGED <<job, server, itemVars, threads>>

\* the request fails, or the body lacks what the loop reads
GatherPageBroken ==
    /\ gpc = "loop" /\ continue_gather
    /\ server.mode = "ok" \/ page <= MaxStallPages
    /\ \E resp \in Broken(Answer(server, page)) : GatherIteration(resp)
    /\ UNCHANGED <<job, server, itemVars, threads>>

----------------------------------------------------------------------------
(* Values of a parsed document *)

StrV(s) == [t |-> "str", s |-> s, n |-> 0, l |-> <<>>]
IntV(n) == [t |-> "int", s |-> <<>>, n |-> n, l |-> <<>>]
ListV(l) == [t |-> "list", s |-> <<>>, n |-> 0, l |-> l]

\* s[:n]
Slice(s, n) == SubSeq(s, 1, Min(Len(s), n))

Put(d, k, v) == [x \in DOMAIN d \cup {k} |-> IF x = k THEN v ELSE d[x]]

UpperChars == <<"A", "B", "C", "D", "E", "F", "G", "H", "I", "J", "K", "L", "M",
                "N", "O", "P", "Q", "R", "S", "T", "U", "V", "W", "X", "Y", "Z">>
LowerChars == <<"a", "b", "c", "d", "e", "f", "g", "h", "i", "j", "k", "l", "m",
                "n", "o", "p", "q", "r", "s", "t", "u", "v", "w", "x", "y", "z">>
Digits == {"0", "1", "2", "3", "4", "5", "6", "7", "8", "9"}

\* str.lower, character by character
LowerOf ==
    [c \in Range(UpperChars) |-> LowerChars[CHOOSE i \in 1..26 : UpperChars[i] = c]]

Lower(c) == IF c \in DOMAIN LowerOf THEN LowerOf[c] ELSE c

IsSpace(c) == c \in {" ", "\t", "\n"}

RECURSIVE LStrip(_)
LStrip(s) == IF s # <<>> /\ IsSpace(Head(s)) THEN LStrip(Tail(s)) ELSE s

RECURSIVE RStrip(_)
RStrip(s) ==
    IF s # <<>> /\ IsSpace(s[Len(s)]) THEN RStrip(SubSeq(s, 1, Len(s) - 1)) ELSE s

\* re.sub(r'[^a-zA-Z0-9\- ]', '', tag)
TagChars == Range(LowerChars) \cup Range(UpperChars) \cup Digits \cup {"-", " "}

TagChar(c) == c \in TagChars

\* ckan.model.MIN_TAG_LENGTH, MAX_TAG_LENGTH
MIN_TAG_LENGTH == 2
MAX_TAG_LENGTH == 100

\* ckan.lib.munge._munge_to_length
MungeToLength(s, min, max) ==
    IF Len(s) < min THEN s \o [i \in 1..(min - Len(s)) |-> "_"]
    ELSE IF Len(s) > max THEN SubSeq(s, 1, max) ELSE s

\* ckan.lib.munge.munge_tag: lower, strip, drop the characters a tag may not
\* hold, spaces to dashes, pad or cut to the tag lengths
munge_tag(tag) ==
    LET stripped == RStrip(LStrip([i \in 1..Len(tag) |-> Lower(tag[i])]))
        kept == SelectSeq(stripped, TagChar)
        dashed == [i \in 1..Len(kept) |-> IF kept[i] = " " THEN "-" ELSE kept[i]]
    IN  MungeToLength(dashed, MIN_TAG_LENGTH, MAX_TAG_LENGTH)

\* the slices of lines 249 and 251
TAG_SLICE == 100
VERSION_SLICE == 100

\* the tags without the isinstance test of line 248
RECURSIVE NormalizeTagsUnfiltered(_)
NormalizeTagsUnfiltered(tags) ==
    IF tags = <<>> THEN <<>>
    ELSE <<StrV(munge_tag(Slice(Head(tags).s, TAG_SLICE)))>>
            \o NormalizeTagsUnfiltered(Tail(tags))

\* lines 246-250: the string entries, cut to TAG_SLICE characters, munged
\* (isinstance(tag, basestring): the module is Python 2 code)
RECURSIVE NormalizeTags(_)
NormalizeTags(tags) ==
    IF tags = <<>> THEN <<>>
    ELSE IF Head(tags).t = "str"
         THEN <<StrV(munge_tag(Slice(Head(tags).s, TAG_SLICE)))>> \o NormalizeTags(Tail(tags))
         ELSE NormalizeTags(Tail(tags))

\* line 251
TruncateVersion(v) == StrV(Slice(v.s, VERSION_SLICE))

----------------------------------------------------------------------------
(* _convert_to_extras *)

DEFAULT_ATTRIBUTES ==
    {"id", "name", "title", "url", "author", "author_email", "maintainer",
     "maintainer_email", "license_id", "version", "notes", "tags", "extras"}

\* the order in which `for key in pkg_dict` visits the keys of the model
KeyOrder == <<"id", "title", "tags", "version", "url", "custom_field",
              "abstract", "resources", "extras">>

IsExtraKey(k) == k \notin DEFAULT_ATTRIBUTES

\* lines 286-290: the (key, value) pairs appended, in iteration order
RECURSIVE ExtrasOf(_, _)
ExtrasOf(d, keys) ==
    IF keys = <<>> THEN <<>>
    ELSE IF Head(keys) \in DOMAIN d /\ IsExtraKey(Head(keys))
         THEN <<<<Head(keys), d[Head(keys)]>>>> \o ExtrasOf(d, Tail(keys))
         ELSE ExtrasOf(d, Tail(keys))

\* lines 292-295: the keys that stay at the top level
KeptKeys(d) == {k \in DOMAIN d : ~IsExtraKey(k)}

_convert_to_extras(pkg_dict) ==
    LET extras0 == IF "extras" \in DOMAIN pkg_dict THEN pkg_dict["extras"] ELSE <<>>
        kept == KeptKeys(pkg_dict) \cup {"extras"}
    IN  [k \in kept |->
            IF k = "extras" THEN extras0 \o ExtrasOf(pkg_dict, KeyOrder)
            ELSE pkg_dict[k]]

----------------------------------------------------------------------------
(* Documents and the parser (DdiCkanMetadata.load) *)

Chars(n, c) == [i \in 1..n |-> c]

FooBar == <<"F", "o", "o", " ", "B", "a", "r">>

\* the value each key carries when a document has it
RawValue(k) ==
    CASE k = "id" -> StrV(<<"1">>)
      [] k = "title" -> StrV(<<"T">>)
      [] k = "tags" -> ListV(<<StrV(FooBar), StrV(Chars(2 * TAG_SLICE, "x")), IntV(42)>>)
      [] k = "version" -> StrV(Chars(2 * VERSION_SLICE, "v"))
      [] k = "url" -> StrV(<<"u">>)
      [] k = "custom_field" -> StrV(<<"Z">>)
      [] k = "abstract" -> StrV(<<"A">>)
      [] k = "resources" -> ListV(<<StrV(<<"r">>)>>)
      [] k = "extras" -> <<<<"k", StrV(<<"v">>)>>>>

\* keys a parsed document may or may not have
OptionalKeys ==
    {"title", "tags", "version", "url", "custom_field", "abstract", "resources", "extras"}

RawMaps == {[k \in {"id"} \cup K |-> RawValue(k)] : K \in SUBSET OptionalKeys}

NoRaw == [k \in {} |-> StrV(<<>>)]

\* a document body: one the parser reads into raw, or one it rejects
Doc(raw) == [text |-> TRUE, parses |-> TRUE, raw |-> raw]
BadDoc == [text |-> TRUE, parses |-> FALSE, raw |-> NoRaw]
\* harvest_object.content before fetch_stage stored one
NoContent == [text |-> FALSE, parses |-> FALSE, raw |-> NoRaw]

Docs == {Doc(r) : r \in RawMaps} \cup {BadDoc}

\* the documents of a run of several objects: the complete one, with and
\* without a field the harvester does not know, and one without tags
RunDocs ==
    {Doc([k \in K |-> RawValue(k)]) :
        K \in {{"id", "title", "tags", "version"},
               {"id", "title", "tags", "version", "custom_field"},
               {"id", "title", "version"}}}

\* ckan_metadata.load(content): [raised, raw]
load(content) ==
    IF content.parses THEN [raised |-> "", raw |-> content.raw]
    ELSE [raised |-> "ParseError", raw |-> NoRaw]

----------------------------------------------------------------------------
(* import_stage, lines 220-271 *)

\* config.get('ckanext.ddi.default_license', '')
DefaultLicense == JStr("")

\* lines 238-244
LicenseId(config) ==
    IF "license" \in DOMAIN config THEN config["license"] ELSE DefaultLicense

\* the resources without the catalogue entry
ResourcesXmlOnly(base_url, guid, pkg_dict) ==
    << [url |-> Url(base_url, _get_ddi_api(guid)),
        name |-> <<"DDI XML of ", pkg_dict["title"].s>>,
        format |-> "xml"] >>

\* lines 255-266
Resources(base_url, guid, pkg_dict) ==
    << [url |-> Url(base_url, _get_ddi_api(guid)),
        name |-> <<"DDI XML of ", pkg_dict["title"].s>>,
        format |-> "xml"],
       [url |-> pkg_dict["url"],
        name |-> <<"NADA catalog entry", <<>>>>,
        format |-> "html"] >>

NoPkg == [k \in {} |-> StrV(<<>>)]

\* lines 221-236: parse, reclassify, rewrite url.  [raised, pkg]
ImportParse(obj) ==
    LET parsed == load(obj.content)
    IN  IF parsed.raised # "" THEN [raised |-> parsed.raised, pkg |-> NoPkg]
        ELSE [raised |-> "",
              pkg |-> Put(_convert_to_extras(parsed.raw), "url",
                          Url(rstrip(obj.source.url), _get_catalog_path(obj.guid)))]

\* lines 238-244 on the config the harvester holds at that moment
ImportLicense(pkg, config) == Put(pkg, "license_id", LicenseId(config))

\* lines 246-267: tags, version, resources.  [raised, pkg]
ImportFields(pkg, obj) ==
    IF "tags" \notin DOMAIN pkg THEN [raised |-> "KeyError tags", pkg |-> NoPkg]
    ELSE IF "version" \notin DOMAIN pkg THEN [raised |-> "KeyError version", pkg |-> NoPkg]
    ELSE IF "title" \notin DOMAIN pkg THEN [raised |-> "KeyError title", pkg |-> NoPkg]
    ELSE LET p1 == Put(pkg, "tags", NormalizeTags(pkg["tags"].l))
             p2 == Put(p1, "version", TruncateVersion(p1["version"]))
         IN  [raised |-> "",
              pkg |-> Put(p2, "resources", Resources(rstrip(obj.source.url), obj.guid, p2))]

\* lines 220-267 in one piece, under config
Normalize(obj, config) ==
    LET a == ImportParse(obj)
    IN  IF a.raised # "" THEN a ELSE ImportFields(ImportLicense(a.pkg, config), obj)

----------------------------------------------------------------------------
(* The run's harvest objects *)

ObjIds == 1..NObjects

\* the argument of a stage call made without a harvest object
None == 0

License(l) == [k \in {"license"} |-> JStr(l)]

SourceConfigs == {NoConfig, License("cc-by")}

ConcConfigs == {NoConfig, License("cc-by"), License("odc-by")}

Source(config) == [url |-> [host |-> "nada", slashes |-> 1], config |-> config]

HarvestObject(guid, config) ==
    [guid |-> guid, source |-> Source(config), content |-> NoContent, errors |-> <<>>]

\* _save_object_error(message, harvest_object)
ObjectError(message, url, cause) == [message |-> message, url |-> url, cause |-> cause]

\* an error store shared by the objects of the run
_save_object_error_all(objs, i, err) ==
    [j \in DOMAIN objs |-> [objs[j] EXCEPT !.errors = Append(@, err)]]

_save_object_error(objs, i, err) == [objs EXCEPT ![i].errors = Append(@, err)]

RECURSIVE SumErrors(_, _)
SumErrors(objs, n) == IF n = 0 THEN 0 ELSE Len(objs[n].errors) + SumErrors(objs, n - 1)

\* the errors stored on the run's objects
TotalErrors(objs) == SumErrors(objs, NObjects)

NoCall == [op |-> "", obj |-> None, result |-> "", recorded |-> <<>>]

Call(op, i, result, recorded) ==
    [op |-> op, obj |-> i, result |-> result, recorded |-> recorded]

----------------------------------------------------------------------------
(* fetch_stage *)

\* lines 184-206 on object i: requests.get gives doc, or raises when got is FALSE
FetchOutcome(objs, i, got, doc) ==
    LET url == Url(rstrip(objs[i].source.url), _get_ddi_api(objs[i].guid))
        err == ObjectError("Unable to get content for package", url, "network")
    IN  IF got
        THEN [objs |-> [objs EXCEPT ![i].content = doc], result |-> "True",
              recorded |-> <<>>]
        ELSE [objs |-> _save_object_error(objs, i, err), result |-> "False",
              recorded |-> <<err>>]

\* The scheduler fetches an object until it has its document (a failed call is
\* driven again); the document is one of docs.
fetch_stage(i, docs) ==
    /\ objects[i].content = NoContent
    /\ self_config' = _set_config(objects[i].source.config)
    /\ \E got \in BOOLEAN, doc \in docs \cup {BadDoc} :
         /\ got \/ (doc = BadDoc /\ TotalErrors(objects) < MaxErrors)
         /\ \E out \in {FetchOutcome(objects, i, got, doc)} :
                /\ objects' = out.objs
                /\ calls' = Call("fetch", i, out.result, out.recorded)
    /\ UNCHANGED <<packages, gatherVars, threads>>

\* line 174 on None: harvest_object.job raises AttributeError before the
\* `if not harvest_object` test of line 176 is reached; nothing catches it
StageOnNone(op) == Call(op, None, "raised AttributeError", <<>>)

fetch_stage_none ==
    /\ calls' = StageOnNone("fetch")
    /\ UNCHANGED <<self_config, objects, packages, gatherVars, threads>>

----------------------------------------------------------------------------
(* import_stage *)

\* lines 220-280 on object i under config; stored says whether
\* _create_or_update_package stores the record or raises
ImportOutcome(objs, pkgs, i, config, stored) ==
    LET res == Normalize(objs[i], config)
        cause == IF res.raised # "" THEN res.raised
                 ELSE IF ~stored THEN "storage" ELSE ""
        err == ObjectError("Exception in import stage", NoUrl, cause)
    IN  IF cause = ""
        THEN [objs |-> objs, pkgs |-> [pkgs EXCEPT ![i] = res.pkg],
              result |-> "True", recorded |-> <<>>]
        ELSE [objs |-> _save_object_error(objs, i, err), pkgs |-> pkgs,
              result |-> "False", recorded |-> <<err>>]

\* The scheduler imports an object once fetch_stage stored its document.
import_stage(i) ==
    /\ objects[i].content # NoContent
    /\ self_config' = _set_config(objects[i].source.config)
    /\ \E stored \in BOOLEAN :
         \E out \in {ImportOutcome(objects, packages, i, self_config', stored)} :
             /\ out.result = "False" => TotalErrors(objects) < MaxErrors
             /\ objects' = out.objs
             /\ packages' = out.pkgs
             /\ calls' = Call("import", i, out.result, out.recorded)
    /\ UNCHANGED <<gatherVars, threads>>

import_stage_none ==
    /\ calls' = StageOnNone("import")
    /\ UNCHANGED <<self_config, objects, packages, gatherVars, threads>>

----------------------------------------------------------------------------
(* Initial states *)

GatherIdle ==
    /\ job = Source(NoConfig)
    /\ server = [found |-> 0, limit |-> 1, mode |-> "ok"]
    /\ page = 1
    /\ harvest_obj_ids = <<>>
    /\ continue_gather = FALSE
    /\ api_url = NoUrl
    /\ requested = <<>>
    /\ saved = <<>>
    /\ gather_errors = <<>>
    /\ gret = Pending
    /\ gpc = "idle"
    /\ lastResp = NoResp
    /\ prevResp = NoResp

ItemsIdle ==
    /\ objects = [i \in ObjIds |-> HarvestObject(i, NoConfig)]
    /\ packages = [i \in ObjIds |-> NoPkg]
    /\ calls = NoCall

ThreadsIdle == threads = <<>>

\* the access_type settings of a source: unset, null, the keys of the enum,
\* and two that are no key of it
AccessTypes ==
    {JNull} \cup {JStr(k) : k \in DOMAIN ACCESS_TYPES} \cup {JStr("restricted"), JStr("Public_Use")}

GatherConfigs == {NoConfig} \cup {[k \in {"access_type"} |-> a] : a \in AccessTypes}

\* gather_stage is called (lines 119-121 done) on some source, against some server
InitGather ==
    /\ self_config = NoConfig
    /\ \E c \in GatherConfigs : job = Source(c)
    /\ \E f \in 0..MaxFound, l \in 1..MaxLimit, m \in {"ok", "same_offset", "zero_limit"} :
         server = [found |-> f, limit |-> l, mode |-> m]
    /\ page = 1
    /\ harvest_obj_ids = <<>>
    /\ continue_gather = TRUE
    /\ api_url = NoUrl
    /\ requested = <<>>
    /\ saved = <<>>
    /\ gather_errors = <<>>
    /\ gret = Pending
    /\ gpc = "loop"
    /\ lastResp = NoResp
    /\ prevResp = NoResp
    /\ ItemsIdle
    /\ ThreadsIdle

NextGather == GatherPage \/ GatherPageBroken

SpecGather == InitGather /\ [][NextGather]_vars

\* the harvest objects gather_stage stored; the first one's source overrides
\* the license
Init ==
    /\ self_config = NoConfig
    /\ objects = [i \in ObjIds |->
                    HarvestObject(i, IF i = 1 THEN License("cc-by") ELSE NoConfig)]
    /\ packages = [i \in ObjIds |-> NoPkg]
    /\ calls = NoCall
    /\ GatherIdle
    /\ ThreadsIdle

Next ==
    \/ \E i \in ObjIds : fetch_stage(i, RunDocs)
    \/ \E i \in ObjIds : import_stage(i)
    \/ fetch_stage_none
    \/ import_stage_none

Spec == Init /\ [][Next]_vars

\* One harvest object, fetched and imported, over every document of Docs and
\* every source configuration: the specification of Normalization's results.
InitNorm ==
    /\ self_config = NoConfig
    /\ \E c \in SourceConfigs, sl \in 0..1 :
         objects = [i \in ObjIds |->
                      [HarvestObject(i, c) EXCEPT !.source.url.slashes = sl]]
    /\ packages = [i \in ObjIds |-> NoPkg]
    /\ calls = NoCall
    /\ GatherIdle
    /\ ThreadsIdle

NextNorm == fetch_stage(1, Docs) \/ import_stage(1)

SpecNorm == InitNorm /\ [][NextNorm]_vars

----------------------------------------------------------------------------
(* Two stage invocations on one harvester instance, statement by statement *)

\* invocation t works on harvest object t
Threads == {1, 2}

Thread(op, i) == [op |-> op, obj |-> i, pc |-> "set_config", pkg |-> NoPkg, result |-> ""]

Finish(t, result) == [threads EXCEPT ![t].pc = "done", ![t].result = result]

\* line 174 / line 210: self._set_config(harvest_object.job.source.config)
StageSetConfig(t) ==
    /\ threads[t].pc = "set_config"
    /\ self_config' = _set_config(objects[threads[t].obj].source.config)
    /\ threads' = [threads EXCEPT ![t].pc = IF threads[t].op = "fetch" THEN "get" ELSE "parse"]
    /\ UNCHANGED <<objects, packages, calls, gatherVars>>

\* fetch_stage lines 184-206
FetchGet(t) ==
    /\ threads[t].pc = "get"
    /\ \E got \in BOOLEAN, doc \in RunDocs \cup {BadDoc} :
         /\ got \/ doc = BadDoc
         /\ \E out \in {FetchOutcome(objects, threads[t].obj, got, doc)} :
              /\ objects' = out.objs
              /\ threads' = Finish(t, out.result)
    /\ UNCHANGED <<self_config, packages, calls, gatherVars>>

\* import_stage lines 220-236
ImportParseStep(t) ==
    /\ threads[t].pc = "parse"
    /\ \E a \in {ImportParse(objects[threads[t].obj])} :
         IF a.raised # ""
         THEN /\ objects' = _save_object_error(objects, threads[t].obj,
                               ObjectError("Exception in import stage", NoUrl, a.raised))
              /\ threads' = Finish(t, "False")
         ELSE /\ threads' = [threads EXCEPT ![t].pc = "license", ![t].pkg = a.pkg]
              /\ UNCHANGED objects
    /\ UNCHANGED <<self_config, packages, calls, gatherVars>>

\* import_stage lines 238-244: self.config is read here
ImportLicenseStep(t) ==
    /\ threads[t].pc = "license"
    /\ threads' = [threads EXCEPT ![t].pc = "fields",
                                  ![t].pkg = ImportLicense(@, self_config)]
    /\ UNCHANGED <<self_config, objects, packages, calls, gatherVars>>

\* import_stage lines 246-280
ImportFieldsStep(t) ==
    /\ threads[t].pc = "fields"
    /\ \E a \in {ImportFields(threads[t].pkg, objects[threads[t].obj])} :
         IF a.raised # ""
         THEN /\ objects' = _save_object_error(objects, threads[t].obj,
                               ObjectError("Exception in import stage", NoUrl, a.raised))
              /\ threads' = Finish(t, "False")
              /\ UNCHANGED packages
         ELSE /\ packages' = [packages EXCEPT ![threads[t].obj] = a.pkg]
              /\ threads' = Finish(t, "True")
              /\ UNCHANGED objects
    /\ UNCHANGED <<self_config, calls, gatherVars>>

\* Each invocation is a fetch of an object not yet fetched or an import of a
\* fetched one; the two sources carry their own configurations.
InitConc ==
    /\ self_config = NoConfig
    /\ \E ops \in [Threads -> {"fetch", "import"}],
          cs \in [Threads -> ConcConfigs],
          ds \in [Threads -> RunDocs \cup {BadDoc}] :
         /\ threads = [t \in Threads |-> Thread(ops[t], t)]
         /\ objects = [i \in ObjIds |->
                         IF i \in Threads
                         THEN [HarvestObject(i, cs[i]) EXCEPT
                                 !.content = IF ops[i] = "import" THEN ds[i] ELSE NoContent]
                         ELSE HarvestObject(i, NoConfig)]
    /\ packages = [i \in ObjIds |-> NoPkg]
    /\ calls = NoCall
    /\ GatherIdle

NextConc ==
    \E t \in Threads :
        \/ StageSetConfig(t)
        \/ FetchGet(t)
        \/ ImportParseStep(t)
        \/ ImportLicenseStep(t)
        \/ ImportFieldsStep(t)

SpecConc == InitConc /\ [][NextConc]_vars

----------------------------------------------------------------------------
(* Discovery (SpecGather) *)

\* the pages a server holding found records serves limit at a time
PagesNeeded(found, limit) ==
    IF found = 0 THEN 1 ELSE (found + limit - 1) \div limit

\* C1: against a well-behaved server (found=F, limit=L>=1, offset=(page-1)*L)
\* gather_stage requests pages 1,2,3,... in order, goes on exactly while
\* offset+limit < found, and returns one harvest object id per row, the rows'
\* ids as guids in order; found=25, limit=10 takes 3 pages and yields 25
\* items, found=0, limit=10 takes one page and yields none.
C1_WellBehavedDiscovery ==
    server.mode = "ok" =>
      /\ \A i \in 1..Len(requested) : requested[i].path.page = i
      /\ (gpc = "loop" /\ requested # <<>>) =>
            lastResp.offset + lastResp.limit < server.found
      /\ gpc = "done" =>
            /\ lastResp.offset + lastResp.limit >= server.found
            /\ Len(requested) = PagesNeeded(server.found, server.limit)
            /\ gret.kind = "list"
            /\ Len(gret.ids) = server.found
            /\ Len(saved) = server.found
            /\ \A i \in 1..Len(saved) : saved[i].guid = i /\ gret.ids[i] = saved[i].id
            /\ (server.found = 25 /\ server.limit = 10) =>
                  Len(requested) = 3 /\ Len(gret.ids) = 25
            /\ (server.found = 0 /\ server.limit = 10) =>
                  Len(requested) = 1 /\ Len(gret.ids) = 0

\* C1 witness: the 25-record, 10-per-page server was read to the end
C1_Witness ==
    /\ server = [found |-> 25, limit |-> 10, mode |-> "ok"]
    /\ gpc = "done"
    /\ Len(requested) = 3
    /\ Len(gret.ids) = 25

\* the loop has read at least one page to its end, and the last page read did
\* not advance: limit 0, or an offset not beyond the previous page's
NonAdvancing ==
    /\ page >= 2
    /\ \/ lastResp.limit = 0
       \/ page >= 3 /\ lastResp.offset <= prevResp.offset

\* C2: when the server's offset/limit pair does not advance from one page to
\* the next while offset+limit < found, gather_stage stops with one fatal
\* run-level error instead of requesting further pages.
C2_StallIsFatal ==
    (NonAdvancing /\ lastResp.offset + lastResp.limit < lastResp.found) =>
        gpc = "failed" /\ Len(gather_errors) = 1 /\ ~ENABLED GatherPage

\* C3: when gather_stage fails on page k, exactly one run-level error is
\* recorded, no further page is requested, and the work items created so far
\* are still the results of the pass: the call returns their ids.
C3_PartialResultsKept ==
    gpc = "failed" =>
        /\ Len(gather_errors) = 1
        /\ ~ENABLED NextGather
        /\ (Len(requested) >= 2 /\ saved # <<>>) =>
              gret = ListRet([i \in 1..Len(saved) |-> saved[i].id])

\* the access_type of the job's source is set to a non-empty string that is
\* no key of ACCESS_TYPES
InvalidAccessType ==
    /\ "access_type" \in DOMAIN job.config
    /\ job.config["access_type"].t = "str"
    /\ job.config["access_type"].s \notin {"", "direct_access", "public_use", "licensed",
                                           "data_enclave", "data_external",
                                           "no_data_available", "open_data"}

UnsetAccessType == "access_type" \notin DOMAIN job.config

\* C9: _get_search_api raises AccessTypeNotAvailableError for an access type
\* that is non-empty and no key of the enum; with such a type configured, or
\* none, every page request of gather_stage goes to the public_use search URL
\* (dtype 2) of that page number, and no run-level error comes from the
\* access type.
C9_FallbackToPublicUse ==
    (gpc # "idle" /\ (InvalidAccessType \/ UnsetAccessType)) =>
      /\ InvalidAccessType =>
            _get_search_api(job.config["access_type"], page).raised
                = "AccessTypeNotAvailableError"
      /\ Len(requested) >= page - 1
      /\ \A i \in 1..Len(requested) :
            requested[i] =
              [base |-> [host |-> job.url.host, slashes |-> 0],
               path |-> [kind |-> "search", hasdtype |-> TRUE, dtype |-> "2",
                         page |-> i, id |-> 0]]
      /\ \A i \in 1..Len(gather_errors) :
            gather_errors[i].cause \notin {"AccessTypeNotAvailableError", "KeyError"}

\* C9 witness: a source configured with an unknown access type was gathered
\* to the end over several pages
C9_Witness ==
    /\ InvalidAccessType
    /\ gpc = "done"
    /\ Len(requested) >= 2
    /\ gather_errors = <<>>

----------------------------------------------------------------------------
(* Normalization (SpecNorm) *)

\* object i was imported: _create_or_update_package received its record
Imported(i) == packages[i] # NoPkg

\* the keys of the (key, value) pairs of a record's extras
ExtraKeys(pkg) == {pkg["extras"][j][1] : j \in 1..Len(pkg["extras"])}

\* C4: after a successful import every key of the raw map is either a
\* top-level key of the record or the key of an extras pair that carries the
\* raw value, never both and never neither.
C4_EveryKeyOnce ==
    \A i \in ObjIds : Imported(i) =>
        \A k \in DOMAIN objects[i].content.raw :
            LET top == k \in DOMAIN packages[i]
                extra == \E j \in 1..Len(packages[i]["extras"]) :
                            /\ packages[i]["extras"][j][1] = k
                            /\ packages[i]["extras"][j][2] = objects[i].content.raw[k]
            IN  /\ top \/ extra
                /\ ~(top /\ k \in ExtraKeys(packages[i]))

\* C5: the record of a successful import has exactly two resources, the xml
\* one first with the raw-document URL of the object's guid, the html one
\* second with the catalogue-page URL; none is taken from the document.
C5_TwoSyntheticResources ==
    \A i \in ObjIds : Imported(i) =>
        LET r == packages[i]["resources"]
            base == [host |-> objects[i].source.url.host, slashes |-> 0]
        IN  /\ Len(r) = 2
            /\ r[1].format = "xml"
            /\ r[1].url = [base |-> base,
                           path |-> [kind |-> "ddi", hasdtype |-> FALSE, dtype |-> "",
                                     page |-> 0, id |-> objects[i].guid]]
            /\ r[2].format = "html"
            /\ r[2].url = [base |-> base,
                           path |-> [kind |-> "catalog", hasdtype |-> FALSE, dtype |-> "",
                                     page |-> 0, id |-> objects[i].guid]]
            /\ r[2].url = packages[i]["url"]

\* C5 witness: a document that carries resources of its own was imported
C5_Witness ==
    /\ Imported(1)
    /\ "resources" \in DOMAIN objects[1].content.raw
    /\ objects[1].source.url.slashes = 1

\* the raw map of C6
C6_Raw ==
    [k \in {"id", "title", "tags", "version", "custom_field"} |->
        CASE k = "id" -> StrV(<<"1">>)
          [] k = "title" -> StrV(<<"T">>)
          [] k = "tags" -> ListV(<<StrV(<<"F", "o", "o", " ", "B", "a", "r">>),
                                   StrV([j \in 1..200 |-> "x"]), IntV(42)>>)
          [] k = "version" -> StrV([j \in 1..200 |-> "v"])
          [] k = "custom_field" -> StrV(<<"Z">>)]

C6_Rest(pkg) ==
    /\ pkg["version"] = StrV([j \in 1..100 |-> "v"])
    /\ \E j \in 1..Len(pkg["extras"]) : pkg["extras"][j] = <<"custom_field", StrV(<<"Z">>)>>
    /\ "custom_field" \notin DOMAIN pkg

\* C6 as stated: importing C6_Raw gives tags exactly ["foo-bar"], the
\* non-string and the 200-character entry both absent, a version of 100
\* characters, the extras pair ("custom_field", "Z") and no top-level
\* custom_field.
C6_TagsOnlyFooBar ==
    \A i \in ObjIds : (Imported(i) /\ objects[i].content.raw = C6_Raw) =>
        /\ packages[i]["tags"] = <<StrV(<<"f", "o", "o", "-", "b", "a", "r">>)>>
        /\ C6_Rest(packages[i])

\* C6 amended: importing C6_Raw gives tags ["foo-bar", "x" * 100]: the
\* non-string entry is absent, the 200-character entry is kept, cut to 100
\* characters; the version has 100 characters, extras holds
\* ("custom_field", "Z") and there is no top-level custom_field.
C6_OverlongTagTruncated ==
    \A i \in ObjIds : (Imported(i) /\ objects[i].content.raw = C6_Raw) =>
        /\ packages[i]["tags"] = <<StrV(<<"f", "o", "o", "-", "b", "a", "r">>),
                                   StrV([j \in 1..100 |-> "x"])>>
        /\ C6_Rest(packages[i])

\* C6 witness: the raw map of C6 was imported
C6_Witness == Imported(1) /\ objects[1].content.raw = C6_Raw

----------------------------------------------------------------------------
(* Failure isolation (Spec) *)

\* C7: a stage call touches the harvest object it is called for and no other:
\* every other object's content, errors and stored record stay as they were;
\* a call that returns False has stored exactly one error, on its own object.
C7_FailureIsolated ==
    [][ /\ \A i \in ObjIds : i # calls'.obj =>
              objects'[i] = objects[i] /\ packages'[i] = packages[i]
        /\ calls'.result = "False" =>
              /\ Len(calls'.recorded) = 1
              /\ objects'[calls'.obj].errors =
                    Append(objects[calls'.obj].errors, calls'.recorded[1])
              /\ objects'[calls'.obj].content = objects[calls'.obj].content
              /\ packages'[calls'.obj] = packages[calls'.obj] ]_vars

\* C7 witness: object 1 failed, and object 2 was fetched and imported after it
C7_Witness ==
    /\ objects[1].errors # <<>>
    /\ calls = Call("import", 2, "True", <<>>)
    /\ Imported(2)
    /\ objects[2].errors = <<>>

\* C10: every fetch_stage and import_stage call returns True or False, a call
\* that returns False has stored exactly one error, and a call without a
\* harvest object returns False with the error 'No harvest object received'.
C10_NeverRaises ==
    calls.op # "" =>
        /\ calls.result \in {"True", "False"}
        /\ calls.result = "False" => Len(calls.recorded) = 1
        /\ calls.obj = None =>
              /\ calls.result = "False"
              /\ Len(calls.recorded) = 1
              /\ calls.recorded[1].message = "No harvest object received"

----------------------------------------------------------------------------
(* Interleaved invocations (SpecConc) *)

\* what invocation t gives when it runs alone: import_stage under the
\* configuration of its own object's source
Alone(t) ==
    Normalize(objects[threads[t].obj], _set_config(objects[threads[t].obj].source.config))

\* C8: under every interleaving of the two invocations each imported object
\* has the record, license_id included, that its invocation gives when it runs
\* alone.
C8_InterleavingFree ==
    \A t \in Threads :
        (threads[t].pc = "done" /\ threads[t].op = "import" /\ threads[t].result = "True") =>
            /\ Alone(t).raised = ""
            /\ packages[threads[t].obj]["license_id"] = Alone(t).pkg["license_id"]
            /\ packages[threads[t].obj] = Alone(t).pkg

====
